---- MODULE Spec2Model ----
(***************************************************************************)
(* Host-side driver of the USB <-> I2C bus adapter (busadapter.py).        *)
(*                                                                         *)
(* The model follows one BusAdapterI2CMaster session: the constructor's    *)
(* init exchange, then a bounded number of public calls.  Every call that  *)
(* passes its argument checks writes one request frame with _send and then *)
(* blocks in _recv; _recv is modelled read by read, because the serial     *)
(* port may hand back fewer bytes than asked for (or none, on timeout).    *)
(* The device is a black box that answers a request with any response     *)
(* frame, at any time after the request was written.                       *)
(***************************************************************************)
EXTENDS Integers, Sequences, FiniteSets, TLC

VARIABLES
    sp,             \* self.sp: "open" | "closed" (None after close())
    pc,             \* "start" | "recv_len" | "recv_body" | "idle" | "dead"
    call,           \* the operation in progress / last finished, with its arguments
    sent,           \* the bytes the current call wrote with sp.write
    rx,             \* bytes the device has emitted and the host has not read yet
    unanswered,     \* request frames written that the device has not answered yet
    response_size,  \* _recv: the length byte (-1 before it is read)
    bytes_to_read,  \* _recv: body bytes still missing
    response,       \* _recv: body bytes accumulated so far
    reads,          \* sp.read calls made by the current call
    msg_code,       \* first element of the pair _recv returned (-1: no pair returned)
    payload,        \* second element of the pair _recv returned
    outcome,        \* how the call ended: result or exception
    ncalls,         \* public calls other than close() made after construction
    nsent,          \* request frames written since construction started
    ndecodes        \* _recv invocations started

vars == <<sp, pc, call, sent, rx, unanswered, response_size, bytes_to_read,
          response, reads, msg_code, payload, outcome, ncalls, nsent, ndecodes>>

-----------------------------------------------------------------------------
(* Bounds of the model *)

MaxCalls == 1
MaxRespLen == 4
MaxData == 2

MaxRx == MaxRespLen + 2

-----------------------------------------------------------------------------
(* Protocol constants, busadapter.py lines 8-36 *)

CMD_VERSION == 0
CMD_INIT == 1
CMD_WRITE == 3
CMD_READ == 4
CMD_TRANSACTION == 5
CMD_SET_PIN_MODE == 7
CMD_DIGITAL_WRITE == 8
CMD_DEBUG1 == 51

MODE_I2C_MASTER == 1

RESPONSE_OK == 0
RESPONSE_ERROR == 1
RESPONSE_CMD_UNAVAILABLE == 2
RESPONSE_WRONG_COMMAND == 3
RESPONSE_BAD_PARAMETERS == 4
RESPONSE_SHORT_WRITE == 5
RESPONSE_NACK_ON_ADDRESS == 6
RESPONSE_NACK_ON_DATA == 7
RESPONSE_DATA_TOO_LONG == 8
RESPONSE_OTHER_ERROR == 9

PIN_MODE_DIGITAL_OUT == 1
PIN_STATUS_HIGH == 16
PIN_STATUS_LOW == 17
PIN_STATUS_TOGGLE == 18

StatusCodes == RESPONSE_OK .. RESPONSE_OTHER_ERROR

-----------------------------------------------------------------------------
(* Python values handed to set_pin_mode / digital_write: a str, an int or  *)
(* a bool.  A bool is an int to Python's hash and ==: True == 1, False == 0.*)

PyStr(s) == [kind |-> "str", s |-> s, n |-> 0]
PyInt(n) == [kind |-> "int", s |-> "", n |-> n]
PyBool(b) == [kind |-> "bool", s |-> "", n |-> IF b THEN 1 ELSE 0]
PyNone == [kind |-> "none", s |-> "", n |-> 0]

\* key equality of a Python dict lookup
PyEq(a, b) ==
    \/ a.kind = "str" /\ b.kind = "str" /\ a.s = b.s
    \/ a.kind \in {"int", "bool"} /\ b.kind \in {"int", "bool"} /\ a.n = b.n

\* a dict is a set of <<key, value>> pairs with pairwise unequal keys
DictHas(d, k) == \E e \in d : PyEq(e[1], k)
DictGet(d, k) == (CHOOSE e \in d : PyEq(e[1], k))[2]

\* struct.pack format 'B': an unsigned byte, struct.error outside 0..255
IsByte(v) == v \in 0..255

\* struct.pack('<H', v): two bytes, little-endian
PackH(v) == <<v % 256, (v \div 256) % 256>>

Min(a, b) == IF a < b THEN a ELSE b

-----------------------------------------------------------------------------
(* How a call ends: a returned value or a raised exception *)

NoCount == 0 - 1

Outcome(kind, msg, got, expected, val) ==
    [kind |-> kind, msg |-> msg, got |-> got, expected |-> expected, val |-> val]

Pending == Outcome("pending", "", NoCount, NoCount, <<>>)
Return(val) == Outcome("return", "", NoCount, NoCount, val)
Raise(kind) == Outcome(kind, "", NoCount, NoCount, <<>>)
RaiseMsg(kind, msg) == Outcome(kind, msg, NoCount, NoCount, <<>>)

\* class BusError: an int message is looked up in the reason table; a status the
\* table does not hold makes the lookup itself fail with KeyError
BusErrorReasons ==
    (RESPONSE_SHORT_WRITE :> "short write")
    @@ (RESPONSE_NACK_ON_ADDRESS :> "nack on address")
    @@ (RESPONSE_NACK_ON_DATA :> "nack on data")
    @@ (RESPONSE_DATA_TOO_LONG :> "data too long for transmit buffer")
    @@ (RESPONSE_OTHER_ERROR :> "other error")

BusError(code) ==
    IF code \in DOMAIN BusErrorReasons
    THEN RaiseMsg("BusError", BusErrorReasons[code])
    ELSE Raise("KeyError")

-----------------------------------------------------------------------------
(* Frame codec *)

\* faulty variant of send: the length byte leaves out the command byte
send_len_without_cmd(cmd_code, data) ==
    IF IsByte(Len(data)) /\ IsByte(cmd_code)
    THEN [err |-> "none", frame |-> <<Len(data), cmd_code>> \o data]
    ELSE [err |-> "struct.error", frame |-> <<>>]

\* faulty variant of send: the length is reduced to a byte instead of checked
send_wrapped(cmd_code, data) ==
    [err |-> "none", frame |-> <<(Len(data) + 1) % 256, cmd_code % 256>> \o data]

\* _send: pack('BB', len(data) + 1, cmd_code) + data; pack raises struct.error
\* when either number does not fit an unsigned byte
send(cmd_code, data) ==
    IF IsByte(Len(data) + 1) /\ IsByte(cmd_code)
    THEN [err |-> "none", frame |-> <<Len(data) + 1, cmd_code>> \o data]
    ELSE [err |-> "struct.error", frame |-> <<>>]

\* faulty variant of short_response: the two counts change places
short_response_swapped(resp, size) ==
    Outcome("BusError", "short response", size, Len(resp), <<>>)

\* _recv, line 94: the failure raised when a body read comes back empty
short_response(resp, size) ==
    Outcome("BusError", "short response", Len(resp), size, <<>>)

\* faulty variant of recv_return: an empty response counts as (ok, no payload)
recv_return_empty_ok(resp) ==
    IF Len(resp) = 0
    THEN [err |-> "none", msg_code |-> RESPONSE_OK, payload |-> <<>>]
    ELSE [err |-> "none", msg_code |-> resp[1],
          payload |-> SubSeq(resp, 2, Len(resp))]

\* _recv, line 98: return response[0], response[1:]
recv_return(resp) ==
    IF Len(resp) = 0
    THEN [err |-> "IndexError", msg_code |-> -1, payload |-> <<>>]
    ELSE [err |-> "none", msg_code |-> resp[1], payload |-> Tail(resp)]

-----------------------------------------------------------------------------
(* The calls and their arguments *)

Call(op, num, data, read_size, arg) ==
    [op |-> op, num |-> num, data |-> data, read_size |-> read_size, arg |-> arg]

NoCall == Call("none", 0, <<>>, 0, PyNone)

\* what a call hands to _send, or the exception its argument handling raises
Req(cmd, data) == [err |-> "none", cmd |-> cmd, data |-> data]
ReqFail(kind) == [err |-> kind, cmd |-> 0, data |-> <<>>]

\* faulty variant of init_request: the clock field is packed big-endian
init_request_big_endian ==
    Req(CMD_INIT, <<MODE_I2C_MASTER, 0, (400 \div 256) % 256, 400 % 256>>)

\* BusAdapterI2CMaster.__init__: pack('<BBH', MODE_I2C_MASTER, 0, 400)
init_request == Req(CMD_INIT, <<MODE_I2C_MASTER, 0>> \o PackH(400))

get_version_request == Req(CMD_VERSION, <<>>)

debug1_request == Req(CMD_DEBUG1, <<>>)

set_pin_mode_table ==
    { <<PyStr("digital_out"), PIN_MODE_DIGITAL_OUT>>,
      <<PyInt(PIN_MODE_DIGITAL_OUT), PIN_MODE_DIGITAL_OUT>> }

set_pin_mode_request(pin_number, mode) ==
    IF ~DictHas(set_pin_mode_table, mode) THEN ReqFail("ValueError")
    ELSE IF ~IsByte(pin_number) THEN ReqFail("struct.error")
    ELSE Req(CMD_SET_PIN_MODE, <<pin_number, DictGet(set_pin_mode_table, mode)>>)

digital_write_table ==
    { <<PyStr("high"), PIN_STATUS_HIGH>>,
      <<PyStr("low"), PIN_STATUS_LOW>>,
      <<PyBool(TRUE), PIN_STATUS_HIGH>>,
      <<PyBool(FALSE), PIN_STATUS_LOW>>,
      <<PyInt(PIN_STATUS_HIGH), PIN_STATUS_HIGH>>,
      <<PyInt(PIN_STATUS_LOW), PIN_STATUS_LOW>>,
      <<PyStr("toggle"), PIN_STATUS_TOGGLE>> }

\* faulty variant of digital_write_request: an int the table does not hold is
\* sent to the device as it is
digital_write_request_passthrough(pin_number, status) ==
    IF ~DictHas(digital_write_table, status)
    THEN IF status.kind = "int" /\ IsByte(status.n) /\ IsByte(pin_number)
         THEN Req(CMD_DIGITAL_WRITE, <<pin_number, status.n>>)
         ELSE ReqFail("ValueError")
    ELSE IF ~IsByte(pin_number) THEN ReqFail("struct.error")
    ELSE Req(CMD_DIGITAL_WRITE, <<pin_number, DictGet(digital_write_table, status)>>)

digital_write_request(pin_number, status) ==
    IF ~DictHas(digital_write_table, status) THEN ReqFail("ValueError")
    ELSE IF ~IsByte(pin_number) THEN ReqFail("struct.error")
    ELSE Req(CMD_DIGITAL_WRITE, <<pin_number, DictGet(digital_write_table, status)>>)

write_request(address, data) ==
    IF ~IsByte(address) THEN ReqFail("struct.error")
    ELSE Req(CMD_WRITE, <<address>> \o data)

read_request(address, read_size) ==
    IF ~(IsByte(address) /\ IsByte(read_size)) THEN ReqFail("struct.error")
    ELSE Req(CMD_READ, <<address, read_size>>)

\* faulty variant of transaction_request: the empty payload is not refused
transaction_request_unchecked(address, data, read_size) ==
    IF ~(IsByte(address) /\ IsByte(read_size)) THEN ReqFail("struct.error")
    ELSE Req(CMD_TRANSACTION, <<address, read_size>> \o data)

transaction_request(address, data, read_size) ==
    IF Len(data) < 1 THEN ReqFail("ValueError")
    ELSE IF ~(IsByte(address) /\ IsByte(read_size)) THEN ReqFail("struct.error")
    ELSE Req(CMD_TRANSACTION, <<address, read_size>> \o data)

Request(c) ==
    CASE c.op = "init" -> init_request
      [] c.op = "get_version" -> get_version_request
      [] c.op = "debug1" -> debug1_request
      [] c.op = "set_pin_mode" -> set_pin_mode_request(c.num, c.arg)
      [] c.op = "digital_write" -> digital_write_request(c.num, c.arg)
      [] c.op = "write" -> write_request(c.num, c.data)
      [] c.op = "read" -> read_request(c.num, c.read_size)
      [] c.op = "transaction" -> transaction_request(c.num, c.data, c.read_size)
      [] c.op = "_recv" -> Req(c.num, c.data)

-----------------------------------------------------------------------------
(* What each operation makes of the pair (msg_code, response) _recv returned *)

\* BusAdapterI2CMaster.__init__, lines 159-160
init_result(code, resp) ==
    IF code # RESPONSE_OK /\ resp # <<>> THEN Raise("ProtocolError")
    ELSE Return(<<>>)

\* faulty variant of write_result: the status is looked at before the payload
write_result_status_first(code, resp) ==
    IF code = RESPONSE_BAD_PARAMETERS THEN Raise("ProtocolError")
    ELSE IF code # RESPONSE_OK THEN BusError(code)
    ELSE IF Len(resp) # 0 THEN Raise("ProtocolError")
    ELSE Return(<<>>)

\* BusAdapterI2CMaster.write, lines 167-171
write_result(code, resp) ==
    IF Len(resp) # 0 \/ code = RESPONSE_BAD_PARAMETERS THEN Raise("ProtocolError")
    ELSE IF code # RESPONSE_OK THEN BusError(code)
    ELSE Return(<<>>)

\* faulty variant of read_result: only a payload that is too short is refused
read_result_accepts_longer(code, resp, read_size) ==
    IF code = RESPONSE_BAD_PARAMETERS THEN Raise("ProtocolError")
    ELSE IF code # RESPONSE_OK THEN BusError(code)
    ELSE IF Len(resp) < read_size THEN RaiseMsg("BusError", "short read")
    ELSE Return(resp)

\* BusAdapterI2CMaster.read, lines 178-186
read_result(code, resp, read_size) ==
    IF code = RESPONSE_BAD_PARAMETERS THEN Raise("ProtocolError")
    ELSE IF code # RESPONSE_OK THEN BusError(code)
    ELSE IF Len(resp) # read_size THEN RaiseMsg("BusError", "short read")
    ELSE Return(resp)

\* BusAdapterI2CMaster.transaction, lines 196-204
transaction_result(code, resp, read_size) ==
    IF code = RESPONSE_BAD_PARAMETERS THEN Raise("ProtocolError")
    ELSE IF code # RESPONSE_OK THEN BusError(code)
    ELSE IF Len(resp) # read_size
         THEN Outcome("BusError", "short read", Len(resp), read_size, <<>>)
    ELSE Return(resp)

\* bytes.rstrip(b'\0')
RECURSIVE RStripNul(_)
RStripNul(b) ==
    IF Len(b) > 0 /\ b[Len(b)] = 0 THEN RStripNul(SubSeq(b, 1, Len(b) - 1)) ELSE b

\* faulty variant of get_version_result: the status is not asserted
get_version_result_unasserted(code, resp) ==
    IF \E i \in 1..Len(RStripNul(resp)) : RStripNul(resp)[i] > 127
    THEN Raise("UnicodeDecodeError")
    ELSE Return(RStripNul(resp))

\* BusAdapter.get_version, lines 105-106; the text is kept as its code points
get_version_result(code, resp) ==
    IF code # RESPONSE_OK THEN Raise("AssertionError")
    ELSE IF \E i \in 1..Len(RStripNul(resp)) : RStripNul(resp)[i] > 127
         THEN Raise("UnicodeDecodeError")
    ELSE Return(RStripNul(resp))

\* struct.unpack format 'h' (little-endian): a signed 16-bit integer
UnpackH(lo, hi) ==
    IF lo + 256 * hi >= 32768 THEN lo + 256 * hi - 65536 ELSE lo + 256 * hi

\* BusAdapter.debug1, lines 113-114: unpack('<hhhh', response) wants 8 bytes
debug1_result(code, resp) ==
    IF code # RESPONSE_OK THEN Raise("AssertionError")
    ELSE IF Len(resp) # 8 THEN Raise("struct.error")
    ELSE Return([i \in 1..4 |-> UnpackH(resp[2 * i - 1], resp[2 * i])])

\* BusAdapter.set_pin_mode line 129, BusAdapter.digital_write line 149
pin_result(code, resp) ==
    IF code # RESPONSE_OK THEN Raise("AssertionError") ELSE Return(<<>>)

Interpret(c, code, resp) ==
    CASE c.op = "init" -> init_result(code, resp)
      [] c.op = "get_version" -> get_version_result(code, resp)
      [] c.op = "debug1" -> debug1_result(code, resp)
      [] c.op = "set_pin_mode" -> pin_result(code, resp)
      [] c.op = "digital_write" -> pin_result(code, resp)
      [] c.op = "write" -> write_result(code, resp)
      [] c.op = "read" -> read_result(code, resp, c.read_size)
      [] c.op = "transaction" -> transaction_result(code, resp, c.read_size)
      [] c.op = "_recv" -> Return(<<>>)

-----------------------------------------------------------------------------
(* Inputs: the arguments callers pass and the frames the device answers with *)

Ramp(n) == [i \in 1..n |-> i]

Addresses == {80, 256}
PinNumbers == {3}
\* payloads around the longest one a frame can carry (length byte 255)
LongData == {Ramp(255 - 3), Ramp(255 - 2), Ramp(255 - 1)}
WriteData == {Ramp(n) : n \in 0..MaxData} \cup LongData
ReadSizes == 0..MaxRespLen

PinModes ==
    { PyStr("digital_out"), PyInt(PIN_MODE_DIGITAL_OUT), PyBool(TRUE),
      PyStr("digital_in"), PyInt(2) }

PinStatuses ==
    { PyStr("high"), PyStr("low"), PyStr("toggle"), PyBool(TRUE), PyBool(FALSE),
      PyInt(PIN_STATUS_HIGH), PyInt(PIN_STATUS_LOW), PyInt(PIN_STATUS_TOGGLE),
      PyInt(0), PyInt(1), PyInt(2), PyStr("on") }

RespPayloads == {Ramp(n) : n \in 0..MaxRespLen} \cup {<<255>>}

\* a response frame: length byte, status, payload; or the bare length byte 0.
\* Every status comes with no payload and with a one-byte payload; the longer
\* payloads come with status ok.
Frame(status, p) == <<Len(p) + 1, status>> \o p
Frames ==
    {<<0>>}
    \cup {Frame(s, p) : s \in StatusCodes, p \in {<<>>, <<255>>}}
    \cup {Frame(RESPONSE_OK, p) : p \in RespPayloads}

-----------------------------------------------------------------------------
(* The state machine *)

Init ==
    /\ sp = "open"
    /\ pc = "start"
    /\ call = NoCall
    /\ sent = <<>>
    /\ rx = <<>>
    /\ unanswered = 0
    /\ response_size = -1
    /\ bytes_to_read = 0
    /\ response = <<>>
    /\ reads = 0
    /\ msg_code = -1
    /\ payload = <<>>
    /\ outcome = Pending
    /\ ncalls = 0
    /\ nsent = 0
    /\ ndecodes = 0

\* the call ends: its result is returned or its exception reaches the caller.
\* An exception out of the constructor leaves no object behind.
End(o) ==
    /\ outcome' = o
    /\ pc' = IF call.op = "init" /\ o.kind # "return" THEN "dead" ELSE "idle"

\* faulty variant of Start: the port left by close() is written to all the same
Start_on_closed_port(c, echo) ==
    LET req == Request(c)
        f == send(req.cmd, req.data)
        err == IF req.err # "none" THEN req.err ELSE f.err
    IN  /\ call' = c
        /\ reads' = 0
        /\ response_size' = -1
        /\ bytes_to_read' = 0
        /\ response' = <<>>
        /\ msg_code' = -1
        /\ payload' = <<>>
        /\ UNCHANGED sp
        /\ IF err # "none"
           THEN /\ sent' = <<>>
                /\ outcome' = Raise(err)
                /\ pc' = IF c.op = "init" THEN "dead" ELSE "idle"
                /\ UNCHANGED <<rx, unanswered, nsent, ndecodes>>
           ELSE /\ sent' = f.frame
                /\ outcome' = Pending
                /\ pc' = "recv_len"
                /\ nsent' = nsent + 1
                /\ UNCHANGED ndecodes
                /\ IF echo
                   THEN rx' = f.frame /\ UNCHANGED unanswered
                   ELSE unanswered' = unanswered + 1 /\ UNCHANGED rx

\* A public call up to the point where it blocks in _recv: argument handling,
\* then _send (self.sp.write fails on the None left by close()).  echo: the
\* channel is a fresh loopback that holds exactly the written bytes.
Start(c, echo) ==
    LET req == Request(c)
        f == send(req.cmd, req.data)
        err == IF req.err # "none" THEN req.err
               ELSE IF sp = "closed" THEN "AttributeError"
               ELSE f.err
    IN  /\ call' = c
        /\ reads' = 0
        /\ response_size' = -1
        /\ bytes_to_read' = 0
        /\ response' = <<>>
        /\ msg_code' = -1
        /\ payload' = <<>>
        /\ UNCHANGED sp
        /\ IF err # "none"
           THEN /\ sent' = <<>>
                /\ outcome' = Raise(err)
                /\ pc' = IF c.op = "init" THEN "dead" ELSE "idle"
                /\ UNCHANGED <<rx, unanswered, nsent, ndecodes>>
           ELSE /\ sent' = f.frame
                /\ outcome' = Pending
                /\ pc' = "recv_len"
                /\ nsent' = nsent + 1
                /\ UNCHANGED ndecodes
                /\ IF echo
                   THEN rx' = f.frame /\ UNCHANGED unanswered
                   ELSE unanswered' = unanswered + 1 /\ UNCHANGED rx

\* BusAdapterI2CMaster.__init__ after the port is open
I2CMasterInit ==
    /\ pc = "start"
    /\ Start(Call("init", 0, <<>>, 0, PyNone), FALSE)
    /\ UNCHANGED ncalls

CanCall == pc = "idle" /\ ncalls < MaxCalls

GetVersion ==
    /\ CanCall
    /\ ncalls' = ncalls + 1
    /\ Start(Call("get_version", 0, <<>>, 0, PyNone), FALSE)

Debug1 ==
    /\ CanCall
    /\ ncalls' = ncalls + 1
    /\ Start(Call("debug1", 0, <<>>, 0, PyNone), FALSE)

SetPinMode ==
    /\ CanCall
    /\ ncalls' = ncalls + 1
    /\ \E pin_number \in PinNumbers, mode \in PinModes :
           Start(Call("set_pin_mode", pin_number, <<>>, 0, mode), FALSE)

DigitalWrite ==
    /\ CanCall
    /\ ncalls' = ncalls + 1
    /\ \E pin_number \in PinNumbers, status \in PinStatuses :
           Start(Call("digital_write", pin_number, <<>>, 0, status), FALSE)

Write ==
    /\ CanCall
    /\ ncalls' = ncalls + 1
    /\ \E address \in Addresses, data \in WriteData :
           Start(Call("write", address, data, 0, PyNone), FALSE)

Read ==
    /\ CanCall
    /\ ncalls' = ncalls + 1
    /\ \E address \in Addresses, read_size \in ReadSizes :
           Start(Call("read", address, <<>>, read_size, PyNone), FALSE)

Transaction ==
    /\ CanCall
    /\ ncalls' = ncalls + 1
    /\ \E address \in Addresses, data \in WriteData, read_size \in ReadSizes :
           Start(Call("transaction", address, data, read_size, PyNone), FALSE)

\* BusAdapter.close: self.sp.close(); self.sp = None
Close ==
    /\ pc = "idle"
    /\ UNCHANGED ncalls
    /\ call' = Call("close", 0, <<>>, 0, PyNone)
    /\ sent' = <<>>
    /\ reads' = 0
    /\ response_size' = -1
    /\ bytes_to_read' = 0
    /\ response' = <<>>
    /\ msg_code' = -1
    /\ payload' = <<>>
    /\ pc' = "idle"
    /\ IF sp = "closed"
       THEN outcome' = Raise("AttributeError") /\ UNCHANGED sp
       ELSE outcome' = Return(<<>>) /\ sp' = "closed"
    /\ UNCHANGED <<rx, unanswered, nsent, ndecodes>>

\* The device answers its oldest unanswered request with some response frame.
DeviceRespond ==
    /\ unanswered > 0
    /\ \E f \in Frames :
           /\ Len(rx) + Len(f) <= MaxRx
           /\ rx' = rx \o f
    /\ unanswered' = unanswered - 1
    /\ UNCHANGED <<sp, pc, call, sent, response_size, bytes_to_read, response,
                   reads, msg_code, payload, outcome, ncalls, nsent, ndecodes>>

\* _recv returns response[0], response[1:] and the caller interprets the pair
Finish(resp) ==
    LET r == recv_return(resp)
    IN  IF r.err # "none"
        THEN End(Raise(r.err)) /\ UNCHANGED <<msg_code, payload>>
        ELSE /\ msg_code' = r.msg_code
             /\ payload' = r.payload
             /\ End(Interpret(call, r.msg_code, r.payload))

\* faulty variant of recv_size: an empty read is taken for a length byte of 0
recv_size_empty_is_zero(block) ==
    IF Len(block) = 0 THEN [err |-> "none", size |-> 0]
    ELSE [err |-> "none", size |-> block[1]]

\* _recv, lines 85-87: the result of response_size = self.sp.read(1)
recv_size(block) ==
    IF Len(block) = 0 THEN [err |-> "Timeout", size |-> -1]
    ELSE [err |-> "none", size |-> block[1]]

\* faulty variant of RecvLen: on a timeout the request frame is written again
\* and the decode starts over
RecvLen_resend ==
    /\ pc = "recv_len"
    /\ ndecodes' = ndecodes + 1
    /\ \E k \in 0..Min(1, Len(rx)) :
         LET block == SubSeq(rx, 1, k)
             r == recv_size(block)
         IN  /\ rx' = SubSeq(rx, k + 1, Len(rx))
             /\ reads' = reads + 1
             /\ IF r.err # "none" /\ nsent <= ncalls + 1
                THEN /\ nsent' = nsent + 1
                     /\ unanswered' = unanswered + 1
                     /\ UNCHANGED <<pc, outcome, response_size, bytes_to_read,
                                    response, msg_code, payload>>
                ELSE /\ UNCHANGED <<nsent, unanswered>>
                     /\ IF r.err # "none"
                        THEN /\ End(Raise(r.err))
                             /\ UNCHANGED <<response_size, bytes_to_read, response,
                                            msg_code, payload>>
                        ELSE /\ response_size' = r.size
                             /\ bytes_to_read' = r.size
                             /\ response' = <<>>
                             /\ IF r.size = 0
                                THEN Finish(<<>>)
                                ELSE pc' = "recv_body" /\ UNCHANGED <<msg_code, payload, outcome>>
    /\ UNCHANGED <<sp, call, sent, ncalls>>

\* _recv, lines 85-90: sp.read(1) hands back the next byte, or nothing on timeout
RecvLen ==
    /\ pc = "recv_len"
    /\ \E k \in 0..Min(1, Len(rx)) :
         LET block == SubSeq(rx, 1, k)
             r == recv_size(block)
         IN  /\ rx' = SubSeq(rx, k + 1, Len(rx))
             /\ reads' = reads + 1
             /\ IF r.err # "none"
                THEN /\ End(Raise(r.err))
                     /\ UNCHANGED <<response_size, bytes_to_read, response,
                                    msg_code, payload>>
                ELSE /\ response_size' = r.size
                     /\ bytes_to_read' = r.size
                     /\ response' = <<>>
                     /\ IF r.size = 0
                        THEN Finish(<<>>)
                        ELSE pc' = "recv_body" /\ UNCHANGED <<msg_code, payload, outcome>>
    /\ ndecodes' = ndecodes + 1
    /\ UNCHANGED <<sp, call, sent, unanswered, ncalls, nsent>>

\* faulty variant of RecvBody: a read that returns nothing is tried again
\* instead of ending the call (up to two reads beyond the bound)
RecvBody_retry_empty ==
    /\ pc = "recv_body"
    /\ \E k \in 0..Min(bytes_to_read, Len(rx)) :
         LET block == SubSeq(rx, 1, k)
         IN  /\ rx' = SubSeq(rx, k + 1, Len(rx))
             /\ reads' = reads + 1
             /\ IF Len(block) = 0 /\ reads <= response_size + 2
                THEN UNCHANGED <<pc, outcome, bytes_to_read, response, msg_code, payload>>
                ELSE IF Len(block) = 0
                THEN /\ End(short_response(response, response_size))
                     /\ UNCHANGED <<bytes_to_read, response, msg_code, payload>>
                ELSE /\ response' = response \o block
                     /\ bytes_to_read' = bytes_to_read - Len(block)
                     /\ IF bytes_to_read - Len(block) = 0
                        THEN Finish(response \o block)
                        ELSE UNCHANGED <<pc, msg_code, payload, outcome>>
    /\ UNCHANGED <<sp, call, sent, unanswered, response_size, ncalls, nsent, ndecodes>>

\* faulty variant of RecvBody: every turn asks for the whole body again, so a
\* turn after a partial read can take bytes of the next frame
RecvBody_overread ==
    /\ pc = "recv_body"
    /\ \E k \in 0..Min(response_size, Len(rx)) :
         LET block == SubSeq(rx, 1, k)
         IN  /\ rx' = SubSeq(rx, k + 1, Len(rx))
             /\ reads' = reads + 1
             /\ IF Len(block) = 0
                THEN /\ End(short_response(response, response_size))
                     /\ UNCHANGED <<bytes_to_read, response, msg_code, payload>>
                ELSE /\ response' = response \o block
                     /\ bytes_to_read' = bytes_to_read - Len(block)
                     /\ IF bytes_to_read - Len(block) <= 0
                        THEN Finish(response \o block)
                        ELSE UNCHANGED <<pc, msg_code, payload, outcome>>
    /\ UNCHANGED <<sp, call, sent, unanswered, response_size, ncalls, nsent, ndecodes>>

\* _recv, lines 91-96: one turn of the loop; sp.read(bytes_to_read) hands back
\* between 0 and bytes_to_read of the bytes that have arrived
RecvBody ==
    /\ pc = "recv_body"
    /\ \E k \in 0..Min(bytes_to_read, Len(rx)) :
         LET block == SubSeq(rx, 1, k)
         IN  /\ rx' = SubSeq(rx, k + 1, Len(rx))
             /\ reads' = reads + 1
             /\ IF Len(block) = 0
                THEN /\ End(short_response(response, response_size))
                     /\ UNCHANGED <<bytes_to_read, response, msg_code, payload>>
                ELSE /\ response' = response \o block
                     /\ bytes_to_read' = bytes_to_read - Len(block)
                     /\ IF bytes_to_read - Len(block) = 0
                        THEN Finish(response \o block)
                        ELSE UNCHANGED <<pc, msg_code, payload, outcome>>
    /\ UNCHANGED <<sp, call, sent, unanswered, response_size, ncalls, nsent, ndecodes>>

Next ==
    \/ I2CMasterInit
    \/ GetVersion
    \/ Debug1
    \/ SetPinMode
    \/ DigitalWrite
    \/ Write
    \/ Read
    \/ Transaction
    \/ Close
    \/ DeviceRespond
    \/ RecvLen
    \/ RecvBody

Spec == Init /\ [][Next]_vars

-----------------------------------------------------------------------------
(* The frame codec on its own: _send writes a frame into a loopback channel *)
(* and _recv decodes it, whatever way the channel splits the reads.         *)

CmdCodes == {CMD_VERSION, CMD_INIT, CMD_DEBUG1, 255}
CodecData == {Ramp(n) : n \in 0..MaxRespLen} \cup {<<0>>, <<255, 0>>}

InitCodec ==
    /\ sp = "open"
    /\ pc = "idle"
    /\ call = NoCall
    /\ sent = <<>>
    /\ rx = <<>>
    /\ unanswered = 0
    /\ response_size = -1
    /\ bytes_to_read = 0
    /\ response = <<>>
    /\ reads = 0
    /\ msg_code = -1
    /\ payload = <<>>
    /\ outcome = Pending
    /\ ncalls = 0
    /\ nsent = 0
    /\ ndecodes = 0

SendRecv ==
    /\ CanCall
    /\ ncalls' = ncalls + 1
    /\ \E cmd_code \in CmdCodes, data \in CodecData :
           Start(Call("_recv", cmd_code, data, 0, PyNone), TRUE)

NextCodec ==
    \/ SendRecv
    \/ RecvLen
    \/ RecvBody

SpecCodec == InitCodec /\ [][NextCodec]_vars

-----------------------------------------------------------------------------
(* The auxiliary operations on a constructed session, against a device that *)
(* also answers with a NUL-padded version text and an 8-byte debug dump.    *)

\* b"1.2.0\0\0\0"
AuxVersion == <<49, 46, 50, 46, 48, 0, 0, 0>>
\* the four little-endian words -1, -32768, 1, 0x1234
AuxDebug == <<255, 255, 0, 128, 1, 0, 52, 18>>

AuxFrames ==
    {Frame(s, p) : s \in StatusCodes, p \in {<<>>, <<255>>}}
    \cup {Frame(RESPONSE_OK, p) : p \in {AuxVersion, AuxDebug}}
    \cup {Frame(RESPONSE_OK, Ramp(n)) : n \in 0..MaxRespLen}

MaxAuxRx == Len(Frame(RESPONSE_OK, AuxVersion))

\* the session right after BusAdapterI2CMaster.__init__ got (ok, empty) back
Constructed ==
    /\ sp = "open"
    /\ pc = "idle"
    /\ call = Call("init", 0, <<>>, 0, PyNone)
    /\ sent = send(init_request.cmd, init_request.data).frame
    /\ rx = <<>>
    /\ unanswered = 0
    /\ response_size = 1
    /\ bytes_to_read = 0
    /\ response = <<RESPONSE_OK>>
    /\ reads = 2
    /\ msg_code = RESPONSE_OK
    /\ payload = <<>>
    /\ outcome = Return(<<>>)
    /\ ncalls = 0
    /\ nsent = 1
    /\ ndecodes = 1

DeviceRespondAux ==
    /\ unanswered > 0
    /\ \E f \in AuxFrames :
           /\ Len(rx) + Len(f) <= MaxAuxRx
           /\ rx' = rx \o f
    /\ unanswered' = unanswered - 1
    /\ UNCHANGED <<sp, pc, call, sent, response_size, bytes_to_read, response,
                   reads, msg_code, payload, outcome, ncalls, nsent, ndecodes>>

NextAux ==
    \/ GetVersion
    \/ Debug1
    \/ SetPinMode
    \/ DigitalWrite
    \/ DeviceRespondAux
    \/ RecvLen
    \/ RecvBody

SpecAux == Constructed /\ [][NextAux]_vars

-----------------------------------------------------------------------------
(* Several reads and transactions in a row on a constructed session.  The    *)
(* device answers its requests in order, and puts the number of the request  *)
(* it answers into the one payload byte, so that the frame produced for a    *)
(* request can be told from the frames produced for the others.              *)

MaxSessionCalls == MaxCalls + 1
SessionReadSizes == {1, 255}
SessionAnswers(j) ==
    {Frame(RESPONSE_OK, <<j>>), Frame(RESPONSE_NACK_ON_ADDRESS, <<j>>)}
MaxSessionRx == 2 * Len(Frame(RESPONSE_OK, <<0>>))

SessionRead ==
    /\ pc = "idle"
    /\ ncalls < MaxSessionCalls
    /\ ncalls' = ncalls + 1
    /\ \E read_size \in SessionReadSizes :
           Start(Call("read", 80, <<>>, read_size, PyNone), FALSE)

SessionTransaction ==
    /\ pc = "idle"
    /\ ncalls < MaxSessionCalls
    /\ ncalls' = ncalls + 1
    /\ \E read_size \in SessionReadSizes :
           Start(Call("transaction", 80, <<7>>, read_size, PyNone), FALSE)

\* the device answers its oldest unanswered request, the init request being
\* request 1
DeviceRespondSession ==
    /\ unanswered > 0
    /\ \E f \in SessionAnswers(nsent - unanswered + 1) :
           /\ Len(rx) + Len(f) <= MaxSessionRx
           /\ rx' = rx \o f
    /\ unanswered' = unanswered - 1
    /\ UNCHANGED <<sp, pc, call, sent, response_size, bytes_to_read, response,
                   reads, msg_code, payload, outcome, ncalls, nsent, ndecodes>>

NextSession ==
    \/ SessionRead
    \/ SessionTransaction
    \/ DeviceRespondSession
    \/ RecvLen
    \/ RecvBody

SpecSession == Constructed /\ [][NextSession]_vars

\* Every sp.read returns: the port is opened with timeout=10.0 (line 67), so
\* a call blocked in _recv always takes its next step.
SpecSessionFair == SpecSession /\ WF_vars(RecvLen) /\ WF_vars(RecvBody)

-----------------------------------------------------------------------------
(* Properties *)

Ended == pc \in {"idle", "dead"}

\* the current call got a pair (msg_code, payload) back from _recv
Decoded == msg_code # -1

\* C1: constructing the I2C-master session raises ProtocolError for every init
\* response other than (status ok, empty payload).
C1_InitRejectsAllButOkEmpty ==
    (call.op = "init" /\ Decoded /\ ~(msg_code = RESPONSE_OK /\ payload = <<>>))
        => outcome.kind = "ProtocolError"

\* C2: write succeeds exactly when the response is (ok, empty payload); a
\* response with a non-empty payload (whatever its status) or with status
\* bad-parameters raises ProtocolError, never BusError.
C2_WriteResult ==
    (call.op = "write" /\ Ended) =>
        /\ outcome.kind = "return"
               <=> (Decoded /\ msg_code = RESPONSE_OK /\ payload = <<>>)
        /\ (Decoded /\ (payload # <<>> \/ msg_code = RESPONSE_BAD_PARAMETERS))
               => outcome.kind = "ProtocolError"

C2_Witness ==
    /\ call.op = "write"
    /\ msg_code = RESPONSE_NACK_ON_ADDRESS
    /\ payload = <<255>>
    /\ outcome.kind = "ProtocolError"

\* C3: for write (with an empty response payload), read and transaction, every
\* status that is neither ok nor bad-parameters (1, 2, 3, 5, 6, 7, 8, 9) ends
\* the call in BusError; the statuses of the reason table carry their reason.
C3_BusErrorForEveryOtherStatus ==
    ( /\ call.op \in {"write", "read", "transaction"}
      /\ Decoded
      /\ msg_code \in (StatusCodes \ {RESPONSE_OK, RESPONSE_BAD_PARAMETERS})
      /\ (call.op = "write" => payload = <<>>) )
        => /\ outcome.kind = "BusError"
           /\ msg_code \in DOMAIN BusErrorReasons
                  => outcome.msg = BusErrorReasons[msg_code]

\* C4: read and transaction with status ok return exactly the payload bytes
\* when their number equals read_size, and otherwise raise BusError (short
\* read) and return nothing.
C4_ExactLength ==
    (call.op \in {"read", "transaction"} /\ Decoded /\ msg_code = RESPONSE_OK) =>
        IF Len(payload) = call.read_size
        THEN outcome = Return(payload)
        ELSE /\ outcome.kind = "BusError"
             /\ outcome.msg = "short read"
             /\ outcome.val = <<>>

C4_Witness ==
    /\ call.op = "transaction"
    /\ msg_code = RESPONSE_OK
    /\ call.read_size = 4
    /\ payload = <<1, 2, 3, 4>>
    /\ outcome = Return(<<1, 2, 3, 4>>)

\* C5: when the 1-byte length read of _recv yields no byte, the call ends in
\* Timeout and in nothing else, that read being the only read it made; this
\* holds for every operation that awaits a response.
C5_TimeoutOnEmptyLengthRead ==
    [][ (pc = "recv_len" /\ reads' = reads + 1 /\ rx' = rx)
            => /\ outcome' = Raise("Timeout")
               /\ reads' = 1
               /\ pc' \in {"idle", "dead"}
               /\ msg_code' = -1 ]_vars

C5_Witness ==
    /\ call.op = "transaction"
    /\ outcome.kind = "Timeout"
    /\ reads = 1
    /\ pc = "idle"

\* the call ended with fewer body bytes gathered than the length byte announced
Starved == Ended /\ response_size >= 1 /\ Len(response) < response_size

\* C6 as claimed: a starved decode fails with an error of a kind of its own,
\* distinct from BusError, Timeout and ProtocolError, with accurate counts.
C6_ShortResponseOwnKind ==
    Starved =>
        /\ outcome.kind \notin {"BusError", "Timeout", "ProtocolError", "return"}
        /\ outcome.got = Len(response)
        /\ outcome.expected = response_size

\* C6 amended: a starved decode fails with BusError whose message is the short
\* response message with accurate counts: received = the bytes gathered so far,
\* expected = the length byte.
C6_ShortResponseIsBusError ==
    Starved =>
        outcome = Outcome("BusError", "short response", Len(response),
                          response_size, <<>>)

C6_Witness ==
    /\ Starved
    /\ response_size = 5
    /\ Len(response) = 2
    /\ reads = 4
    /\ outcome.got = 2
    /\ outcome.expected = 5

\* C7: decoding the frame _send produced gives back the command byte and the
\* payload, however the channel splits the body into non-empty reads; a decode
\* can only fail through a read that yields nothing.
C7_RoundTrip ==
    (call.op = "_recv" /\ Ended) =>
        \/ /\ outcome.kind = "return"
           /\ msg_code = call.num
           /\ payload = call.data
        \/ outcome = Raise("Timeout") /\ reads = 1
        \/ outcome.kind = "BusError" /\ outcome.msg = "short response" /\ rx # <<>>

C7_Witness ==
    /\ call.op = "_recv"
    /\ call.num = 255
    /\ call.data = <<1, 2, 3>>
    /\ reads = 4
    /\ outcome.kind = "return"
    /\ msg_code = 255
    /\ payload = <<1, 2, 3>>

\* C8: transaction with an empty payload raises ValueError before any I/O:
\* nothing is written, nothing is read, the channel is left as it was.
C8_EmptyTransactionNoIO ==
    [][ (call'.op = "transaction" /\ call'.data = <<>> /\ ncalls' = ncalls + 1)
            => /\ outcome'.kind = "ValueError"
               /\ sent' = <<>>
               /\ reads' = 0
               /\ pc' = "idle"
               /\ UNCHANGED <<rx, unanswered, nsent, ndecodes, sp>> ]_vars

C8_Witness ==
    /\ call.op = "transaction"
    /\ call.data = <<>>
    /\ call.read_size = 1
    /\ outcome.kind = "ValueError"
    /\ sent = <<>>
    /\ reads = 0

\* C9: set_pin_mode with a mode, and digital_write with a status, that matches
\* no key of the operation's table raises ValueError and does no I/O.
C9_BadPinArgumentNoIO ==
    [][ ( /\ ncalls' = ncalls + 1
          /\ \/ call'.op = "set_pin_mode" /\ ~DictHas(set_pin_mode_table, call'.arg)
             \/ call'.op = "digital_write" /\ ~DictHas(digital_write_table, call'.arg) )
            => /\ outcome'.kind = "ValueError"
               /\ sent' = <<>>
               /\ reads' = 0
               /\ pc' = "idle"
               /\ UNCHANGED <<rx, unanswered, nsent, ndecodes, sp>> ]_vars

C9_Witness ==
    /\ call.op = "digital_write"
    /\ call.arg = PyInt(2)
    /\ outcome.kind = "ValueError"
    /\ sent = <<>>
    /\ reads = 0

\* the closed set of statuses C10 names, with the code each stands for
C10_Statuses ==
    { <<PyStr("high"), PIN_STATUS_HIGH>>, <<PyBool(TRUE), PIN_STATUS_HIGH>>,
      <<PyInt(PIN_STATUS_HIGH), PIN_STATUS_HIGH>>,
      <<PyStr("low"), PIN_STATUS_LOW>>, <<PyBool(FALSE), PIN_STATUS_LOW>>,
      <<PyInt(PIN_STATUS_LOW), PIN_STATUS_LOW>>,
      <<PyStr("toggle"), PIN_STATUS_TOGGLE>>,
      <<PyInt(PIN_STATUS_TOGGLE), PIN_STATUS_TOGGLE>> }

\* C10: digital_write on an open session accepts every member of the closed
\* set and sends the payload [pin_number, code]; any other value is rejected
\* with ValueError.  (A value Python holds equal to a member counts as it.)
C10_DigitalWriteClosedSet ==
    (call.op = "digital_write" /\ sp = "open") =>
        IF DictHas(C10_Statuses, call.arg)
        THEN sent = <<3, CMD_DIGITAL_WRITE, call.num, DictGet(C10_Statuses, call.arg)>>
        ELSE outcome.kind = "ValueError" /\ sent = <<>>


\* C11: once close() has been called, every step the host takes (any operation,
\* close included, any number of times) ends at once in an exception: nothing
\* is written to the channel, nothing is read from it, no result is returned.
\* (The only other steps are the device's, which change unanswered.)
C11_UseAfterCloseFails ==
    [][ (sp = "closed" /\ unanswered' = unanswered)
            => /\ outcome'.kind \notin {"return", "pending"}
               /\ pc' = "idle"
               /\ sent' = <<>>
               /\ reads' = 0
               /\ sp' = "closed"
               /\ UNCHANGED <<rx, unanswered, nsent, ndecodes>> ]_vars

C11_Witness ==
    /\ sp = "closed"
    /\ call.op = "read"
    /\ call.num = 80
    /\ outcome.kind = "AttributeError"
    /\ sent = <<>>
    /\ reads = 0


AuxOps == {"get_version", "debug1", "set_pin_mode", "digital_write"}

\* C12 as claimed: an auxiliary operation ends in an assertion failure for
\* every non-ok status and completes normally for status ok.
C12_AssertOrComplete ==
    (call.op \in AuxOps /\ Decoded) =>
        IF msg_code # RESPONSE_OK
        THEN outcome.kind = "AssertionError"
        ELSE outcome.kind = "return"

\* C12 amended: an auxiliary operation ends in an assertion failure for every
\* non-ok status.  With status ok, set_pin_mode and digital_write return;
\* get_version returns the payload without its trailing NUL bytes when that is
\* ASCII and raises UnicodeDecodeError otherwise; debug1 returns the four
\* signed words when the payload has 8 bytes and raises struct.error otherwise.
C12_AssertThenDecode ==
    (call.op \in AuxOps /\ Decoded) =>
        IF msg_code # RESPONSE_OK
        THEN outcome = Raise("AssertionError")
        ELSE CASE call.op \in {"set_pin_mode", "digital_write"} ->
                      outcome = Return(<<>>)
               [] call.op = "get_version" ->
                      LET n == outcome.val
                      IN  IF \E i \in 1..Len(payload) : payload[i] > 127
                          THEN outcome = Raise("UnicodeDecodeError")
                          ELSE /\ outcome.kind = "return"
                               /\ Len(n) <= Len(payload)
                               /\ n = SubSeq(payload, 1, Len(n))
                               /\ \A i \in Len(n) + 1 .. Len(payload) : payload[i] = 0
                               /\ Len(n) > 0 => n[Len(n)] # 0
               [] call.op = "debug1" ->
                      IF Len(payload) # 8
                      THEN outcome = Raise("struct.error")
                      ELSE /\ outcome.kind = "return"
                           /\ Len(outcome.val) = 4
                           /\ \A i \in 1..4 :
                                  /\ outcome.val[i] \in -32768..32767
                                  /\ (outcome.val[i] - payload[2 * i - 1]
                                         - 256 * payload[2 * i]) \in {0, -65536}

C12_Witness ==
    /\ call.op = "get_version"
    /\ msg_code = RESPONSE_NACK_ON_ADDRESS
    /\ outcome.kind = "AssertionError"

\* status ok: the version text and the debug words come back decoded
C12_VersionReturned ==
    /\ call.op = "get_version"
    /\ payload = AuxVersion
    /\ outcome = Return(<<49, 46, 50, 46, 48>>)

C12_DebugReturned ==
    /\ call.op = "debug1"
    /\ payload = AuxDebug
    /\ outcome = Return(<<-1, -32768, 1, 4660>>)


\* the request frame C13 gives for each operation, byte by byte
C13_Frame(c) ==
    CASE c.op = "init" -> <<5, 1, 1, 0, 144, 1>>
      [] c.op = "get_version" -> <<1, 0>>
      [] c.op = "debug1" -> <<1, 51>>
      [] c.op = "set_pin_mode" -> <<3, 7, c.num, 1>>
      [] c.op = "digital_write" -> <<3, 8, c.num, DictGet(C10_Statuses, c.arg)>>
      [] c.op = "write" -> <<Len(c.data) + 2, 3, c.num>> \o c.data
      [] c.op = "read" -> <<3, 4, c.num, c.read_size>>
      [] c.op = "transaction" -> <<Len(c.data) + 3, 5, c.num, c.read_size>> \o c.data

\* C13: the frame an operation writes is [len(payload) + 1, command code]
\* followed by the payload, with the command code and the payload layout of
\* that operation.  A call writes that frame unless it ends at once in
\* ValueError, struct.error or AttributeError, having written nothing.
C13_ExactRequestFrames ==
    ( /\ call.op \notin {"none", "close", "_recv"}
      /\ \/ sent # <<>>
         \/ outcome.kind \notin {"ValueError", "struct.error", "AttributeError"} )
        => sent = C13_Frame(call)

C13_Witness ==
    /\ call.op = "transaction"
    /\ call.data = <<1, 2>>
    /\ call.read_size = 4
    /\ sent = <<5, 5, 80, 4, 1, 2>>


\* the call hands _send a payload of more than 254 bytes: write with more than
\* 253 data bytes, transaction with more than 252 write bytes
C14_TooLong ==
    /\ sp = "open"
    /\ \/ call.op = "write" /\ IsByte(call.num) /\ Len(call.data) > 253
       \/ /\ call.op = "transaction"
          /\ IsByte(call.num) /\ IsByte(call.read_size)
          /\ Len(call.data) > 252

C14_LengthByteExact ==
    sent # <<>> => (sent[1] = Len(sent) - 1 /\ sent[1] \in 1..255)

\* C14 as claimed: a frame payload longer than 254 bytes fails with
\* PayloadTooLarge and nothing is written; the length byte of every frame
\* written is len(payload) + 1, in 1..255.
C14_PayloadTooLarge ==
    /\ C14_TooLong => (outcome.kind = "PayloadTooLarge" /\ sent = <<>> /\ reads = 0)
    /\ C14_LengthByteExact

\* C14 amended: a frame payload longer than 254 bytes fails with the
\* struct.error pack raises and nothing is written; the length byte of every
\* frame written is len(payload) + 1, in 1..255.
C14_StructError ==
    /\ C14_TooLong =>
           (outcome = Raise("struct.error") /\ sent = <<>> /\ reads = 0 /\ pc = "idle")
    /\ C14_LengthByteExact

C14_Witness ==
    /\ call.op = "write"
    /\ call.num = 80
    /\ Len(call.data) = 254
    /\ outcome = Raise("struct.error")
    /\ sent = <<>>

\* the longest frame: write with 253 data bytes goes out with length byte 255
C14_LongestFrameSent ==
    /\ call.op = "write"
    /\ Len(call.data) = 253
    /\ Len(sent) = 256
    /\ sent[1] = 255


\* C15: a frame is written only as a call starts, one frame at a time and
\* only when every earlier decode has been started; a decode starts only
\* after the call's frame is written, once per frame; no step of a running
\* call writes again, so frames written never lead decodes started by more
\* than one and a call that has ended has started as many decodes as frames
\* were written.
C15_OneFrameOneDecode ==
    [][ /\ nsent' # nsent =>
               /\ pc \in {"start", "idle"}
               /\ pc' = "recv_len"
               /\ sent' # <<>>
               /\ nsent' = nsent + 1
               /\ ndecodes = nsent
               /\ ndecodes' = ndecodes
        /\ ndecodes' # ndecodes =>
               /\ pc = "recv_len"
               /\ reads = 0
               /\ ndecodes' = ndecodes + 1
               /\ ndecodes' = nsent
               /\ nsent' = nsent
        /\ pc \in {"recv_len", "recv_body"} => (nsent' = nsent /\ sent' = sent)
        /\ nsent' - ndecodes' \in 0..1
        /\ nsent' <= ncalls' + 1
        /\ pc' \in {"idle", "dead"} => nsent' = ndecodes' ]_vars

\* a call after a call that timed out: two frames written, two decodes
C15_Witness ==
    /\ nsent = 2
    /\ ndecodes = 2
    /\ call.op = "write"
    /\ outcome.kind = "Timeout"


\* the bytes a step took off the channel
C16_Taken == Len(rx) - Len(rx')

\* C16: the first read asks for one byte; after the length byte L every read
\* asks for exactly the L - len(response) bytes still missing, which is at
\* least one; what a read takes off the channel is what the response gains,
\* never more than was asked for, and the bytes taken are the front of the
\* channel in order; a decode that hands back (status, payload) has taken
\* exactly 1 + L bytes, and a call that ends on the status or payload or on
\* a short read has taken the length byte and no more than L bytes after it.
C16_NoOverRead ==
    [][ reads' = reads + 1 =>
          /\ C16_Taken >= 0
          /\ rx' = SubSeq(rx, C16_Taken + 1, Len(rx))
          /\ pc = "recv_len" =>
                 /\ C16_Taken <= 1
                 /\ response' = <<>>
                 /\ (C16_Taken = 1 /\ pc' = "recv_body") =>
                        (bytes_to_read' = rx[1] /\ response_size' = rx[1])
          /\ pc = "recv_body" =>
                 /\ bytes_to_read >= 1
                 /\ bytes_to_read = response_size - Len(response)
                 /\ C16_Taken <= bytes_to_read
                 /\ response' = response \o SubSeq(rx, 1, C16_Taken)
                 /\ pc' = "recv_body" =>
                        bytes_to_read' = response_size' - Len(response')
          /\ msg_code' # NoCount =>
                 /\ Len(response') = response_size'
                 /\ response' = <<msg_code'>> \o payload'
          /\ (pc' \in {"idle", "dead"} /\ outcome'.kind # "Timeout") =>
                 Len(response') <= response_size' ]_vars

\* a body that arrived in two pieces, with the next frame already waiting
C16_Witness ==
    /\ msg_code = RESPONSE_OK
    /\ reads = 3
    /\ response_size = 2
    /\ Len(response) = 2
    /\ rx # <<>>
    /\ outcome.kind = "return"


\* the ways a call can end
C17_Outcomes ==
    {"return", "Timeout", "BusError", "ProtocolError", "AssertionError",
     "UnicodeDecodeError", "struct.error", "IndexError", "KeyError",
     "ValueError", "AttributeError"}

C18_NoZeroLengthFrame ==
    /\ sent # <<>> => (sent[1] >= 1 /\ Len(sent) >= 2)
    /\ response_size = 0 =>
           /\ ~Decoded
           /\ response = <<>>
           /\ pc \in {"idle", "dead"}
           /\ outcome = Raise("IndexError")

C18_Witness ==
    /\ call.op = "write"
    /\ sent # <<>>
    /\ response_size = 0
    /\ reads = 1
    /\ outcome.kind = "IndexError"


\* C19: the (status, payload) a call of the session interprets is a frame the
\* device produced for that call's own request, whatever happened to the
\* calls before it.
C19_OwnResponse ==
    (Decoded /\ call.op \in {"read", "transaction"})
        => <<response_size>> \o response \in SessionAnswers(nsent)

\* the second call after init returned the byte the device sent for the first
C19_StaleReturned ==
    /\ ncalls = 2
    /\ nsent = 3
    /\ call.op = "read"
    /\ outcome = Return(<<2>>)

\* C20: for a read size that read or transaction has put on the wire there
\* is a response frame with a length byte of at most 255, status ok and a
\* payload of that many bytes on which the call returns.
C20_ReadSizeSatisfiable ==
    (call.op \in {"read", "transaction"} /\ sent # <<>>)
        => \E n \in 0..255 :
               /\ Frame(RESPONSE_OK, Ramp(n))[1] <= 255
               /\ n = call.read_size
               /\ Interpret(call, RESPONSE_OK, Ramp(n)).kind = "return"

\* read(0x50, 255) is written to the device
C20_Size255Sent ==
    /\ call.op = "read"
    /\ call.read_size = 255
    /\ sent = <<3, CMD_READ, 80, 255>>

====
